---- MODULE Spec2Model ----
(***************************************************************************)
(* SOL Slot Storm: the lottery (SlotStormLottery) and the service that     *)
(* drives it (SlotStormService): holder snapshots, fee claims, scheduled   *)
(* and lightning draws, and the pending -> confirmed / failed life of a    *)
(* reward.                                                                 *)
(*                                                                         *)
(* Amounts are integers in units of 1/SOL of a SOL, so that the factors    *)
(* 0.1, 0.05, 0.5 and 1.5 of the prize formulas are exact on the amounts   *)
(* the model draws.  Multipliers that are not integers in the source are   *)
(* kept doubled (a name ending in 2): 1.5 is 3, 0.5 is 1.                  *)
(***************************************************************************)
EXTENDS Integers, Sequences, FiniteSets, TLC

\* ------------------------------------------------------------------------
\* Units, bounds and the inputs the environment may supply
\* ------------------------------------------------------------------------

\* one SOL, in model units (divisible by 40^3, see calculatePrize)
SOL == 10 * 40 * 40 * 40

\* the ledger (pendingRewards) holds at most this many rewards in the model
MaxRewards == 2
\* ... and at most this many where every timer and refresh is interleaved
MaxRewardsWide == 1

\* Date.now() when the process starts, in ms
StartTime == 1000000

\* checkCreatorFees: claim at most every 5 minutes
ThrottleMs == 300000

\* the clock advances by one throttle period plus 1 ms, or stands still
TickSteps == {ThrottleMs + 1}

MaxTime == StartTime + ThrottleMs + 1

\* wallets are <<first 8 characters, rest>>
W1 == <<"AAAAAAAA", "x">>
W2 == <<"AAAAAAAA", "y">>
W3 == <<"BBBBBBBB", "x">>

\* String.prototype.slice(0, 8)
slice8(w) == w[1]

Max(a, b) == IF a >= b THEN a ELSE b
Min(a, b) == IF a <= b THEN a ELSE b

\* the three tiers of slot symbols
common == {"apple", "orange", "grape", "cherry"}
rare == {"gem", "star", "fire", "bolt"}
legendary == {"crown", "trophy", "moneybag", "slot"}
AllSymbols == common \cup rare \cup legendary


\* JavaScript null, for a winner that was not selected
null == <<>>

\* one triple of symbols for each outcome class of a spin
Jackpot3 == <<"crown", "crown", "crown">>
Large3 == <<"gem", "gem", "gem">>
Medium3 == <<"apple", "apple", "apple">>
Small3 == <<"apple", "apple", "orange">>
Bonus3 == <<"bolt", "fire", "cherry">>
NoWin3 == <<"apple", "orange", "grape">>

\* transaction signatures a payout can return, or a caller can pass
TxHashes == {"sigA", "sigB"}

\* holder snapshots a fetch can return (this.holders after filter and sort)
HoldersA == << [address |-> W1, uiAmount |-> 2000], [address |-> W3, uiAmount |-> 1000] >>
HoldersB == << [address |-> W2, uiAmount |-> 2500], [address |-> W1, uiAmount |-> 500] >>

\* ------------------------------------------------------------------------
\* Pure functions of the lottery
\* ------------------------------------------------------------------------

\* updateHolders: 1 ticket per 1000 tokens, at least 1
TicketsFor(balance) == Max(1, balance \div 1000)

\* Map.set: a known key keeps its place and takes the new value
MapSet(m, h) ==
    IF \E i \in 1..Len(m) : m[i].wallet = h.wallet
    THEN [i \in 1..Len(m) |-> IF m[i].wallet = h.wallet THEN h ELSE m[i]]
    ELSE Append(m, h)

\* a holder stored with the tickets its caller supplied
holderAsGiven(holder) == holder

\* the value updateHolders stores: { ...holder, tickets: totalTickets }
holderEntry(holder) ==
    [wallet |-> holder.wallet, balance |-> holder.balance,
     tickets |-> TicketsFor(holder.balance)]

RECURSIVE SetAll(_, _)
SetAll(m, list) ==
    IF list = <<>> THEN m
    ELSE SetAll(MapSet(m, holderEntry(Head(list))), Tail(list))

\* updateHolders(holders): clear the map, then set every holder with its
\* recomputed tickets
updateHolders(list) == SetAll(<<>>, list)

\* updateLotteryHolders: the service's holders as lottery holders
lotteryHolders(hs) ==
    [i \in 1..Len(hs) |-> [wallet |-> hs[i].address,
                           balance |-> hs[i].uiAmount,
                           tickets |-> Max(1, hs[i].uiAmount \div 1000)]]

\* an evaluateSlotResult that looks for the bolt and fire pair before it
\* looks for two equal symbols
evaluateBonusFirst(symbols) ==
    LET allSame == \A i \in 1..3 : symbols[i] = symbols[1]
    IN  IF allSame /\ symbols[1] \in legendary
        THEN [type |-> "jackpot", multiplier |-> 50]
        ELSE IF allSame
        THEN IF symbols[1] \in rare
             THEN [type |-> "large", multiplier |-> 10]
             ELSE [type |-> "medium", multiplier |-> 5]
        ELSE IF (\E i \in 1..3 : symbols[i] = "bolt")
                /\ (\E i \in 1..3 : symbols[i] = "fire")
        THEN [type |-> "medium", multiplier |-> 8]
        ELSE IF symbols[1] = symbols[2] \/ symbols[2] = symbols[3]
                \/ symbols[1] = symbols[3]
        THEN [type |-> "small", multiplier |-> 2]
        ELSE [type |-> "none", multiplier |-> 0]

\* an evaluateSlotResult that pays the smallest win where nothing matches
evaluateConsolation(symbols) ==
    IF \E i, j \in 1..3 : i # j /\ symbols[i] = symbols[j]
    THEN [type |-> "small", multiplier |-> 2]
    ELSE [type |-> "small", multiplier |-> 1]

\* evaluateSlotResult(symbols)
evaluateSlotResult(symbols) ==
    LET allSame == \A i \in 1..3 : symbols[i] = symbols[1]
    IN  IF allSame /\ symbols[1] \in legendary
        THEN [type |-> "jackpot", multiplier |-> 50]
        ELSE IF allSame
        THEN IF symbols[1] \in rare
             THEN [type |-> "large", multiplier |-> 10]
             ELSE [type |-> "medium", multiplier |-> 5]
        ELSE IF symbols[1] = symbols[2] \/ symbols[2] = symbols[3]
                \/ symbols[1] = symbols[3]
        THEN [type |-> "small", multiplier |-> 2]
        ELSE IF (\E i \in 1..3 : symbols[i] = "bolt")
                /\ (\E i \in 1..3 : symbols[i] = "fire")
        THEN [type |-> "medium", multiplier |-> 8]
        ELSE [type |-> "none", multiplier |-> 0]

RECURSIVE SumTickets(_)
SumTickets(hs) == IF hs = <<>> THEN 0 ELSE Head(hs).tickets + SumTickets(Tail(hs))

\* the loop of selectWeightedWinner: randomNum2 is twice randomNum
RECURSIVE WinnerLoop(_, _)
WinnerLoop(hs, randomNum2) ==
    IF hs = <<>> THEN null
    ELSE IF randomNum2 - 2 * Head(hs).tickets <= 0
    THEN Head(hs).wallet
    ELSE WinnerLoop(Tail(hs), randomNum2 - 2 * Head(hs).tickets)

\* a selectWeightedWinner whose loop stops before the last holder
selectSkipsLast(hs, random2) ==
    IF SumTickets(hs) = 0 THEN null
    ELSE WinnerLoop(SubSeq(hs, 1, Len(hs) - 1), random2)

\* selectWeightedWinner, for Math.random() * totalTickets = random2 / 2
selectWeightedWinner(hs, random2) ==
    IF SumTickets(hs) = 0 THEN null ELSE WinnerLoop(hs, random2)

\* the values Math.random() * totalTickets takes in the model: the
\* multiples of 1/2 in [0, totalTickets), doubled
RandomPoints(hs) == 0 .. Max(0, 2 * SumTickets(hs) - 1)

\* calculatePrize: prizeMultiplier, doubled
prizeMultiplier2(winType) ==
    CASE winType = "small" -> 1
      [] winType = "medium" -> 2
      [] winType = "large" -> 6
      [] winType = "jackpot" -> 20
      [] OTHER -> 2

\* a calculatePrize that adds the weather multiplier as a bonus to 1
calculatePrizeWeatherBonus(pool, winType, multiplier, weather2) ==
    (Min(pool, 10 * SOL) \div 40) * prizeMultiplier2(winType) * multiplier
        * (2 + weather2)

\* calculatePrize(winType, multiplier), with the pool and the weather
\* multiplier (doubled) it reads:
\*   min(pool * 0.1, 1) * prizeMultiplier * multiplier * weather
calculatePrize(pool, winType, multiplier, weather2) ==
    (Min(pool, 10 * SOL) \div 40) * prizeMultiplier2(winType) * multiplier * weather2

\* lightningStrike: min(pool * 0.05, 0.5)
lightningPrize(pool) == Min(pool, 10 * SOL) \div 20

\* a lightning strike that pays any prize
NoMinimum == 0 * SOL

\* lightningStrike: minimum 0.01 SOL
MinLightningPrize == SOL \div 100

\* a weatherConfig in which every weather has the multiplier of sunny
weatherFlat(type) == [type |-> type, multiplier2 |-> 2, duration |-> 600000]

\* changeWeather: weatherConfig
weatherConfig(type) ==
    CASE type = "sunny" -> [type |-> "sunny", multiplier2 |-> 2, duration |-> 600000]
      [] type = "rainy" -> [type |-> "rainy", multiplier2 |-> 3, duration |-> 480000]
      [] type = "storm" -> [type |-> "storm", multiplier2 |-> 6, duration |-> 180000]

WeatherTypes == {"sunny", "rainy", "storm"}

\* the id of a reward: `${timestamp}-${winner.slice(0, 8)}`
rewardId(r) == <<r.timestamp, slice8(r.winner)>>

\* Array.prototype.find: the first reward with this id and this status, or 0
findReward(rewards, id, status) ==
    LET hits == {i \in 1..Len(rewards) :
                    rewardId(rewards[i]) = id /\ rewards[i].status = status}
    IN  IF hits = {} THEN 0 ELSE CHOOSE i \in hits : \A j \in hits : i <= j

\* a checkPendingRewards that counts only the pending rewards
checkOnlyPending(rewards) ==
    ~(Cardinality({i \in 1..Len(rewards) : rewards[i].status = "pending"}) > 0)

\* checkPendingRewards: the gate the ledger implies
checkPendingRewards(rewards) ==
    LET pendingCount == Cardinality({i \in 1..Len(rewards) : rewards[i].status = "pending"})
        failedCount == Cardinality({i \in 1..Len(rewards) : rewards[i].status = "failed"})
    IN  ~(pendingCount > 0 \/ failedCount > 0)

\* ------------------------------------------------------------------------
\* State
\* ------------------------------------------------------------------------

VARIABLES
    \* SlotStormLottery
    holders,              \* Map<wallet, Holder>, in insertion order
    currentWeather,
    prizePool,
    actualClaimedAmount,
    isRunning,
    canStartNewRound,
    hasNewCreatorFees,
    pendingRewards,       \* the ledger
    \* SlotStormService
    winners,
    lastCreatorFeesCheck,
    \* the event loop: timers, calls suspended on external I/O, the clock
    timers,               \* per timer field: timers armed, and whether the
                          \* field holds the handle of an armed one
    payouts,              \* ledger indices whose distributeReward is awaiting
    feeChecks,            \* checkCreatorFees calls awaiting
    fetches,              \* fetchTokenHolders calls awaiting, by caller
    now,                  \* Date.now()
    creds,                \* CREATOR_WALLET_* of process.env
    \* the last step taken: operation, what it returned, what it emitted, and
    \* for updateHolders the wallets of the list it was given
    ev,
    \* what the environment can supply in this behaviour (fixed by Init)
    scope

lotVars == <<holders, currentWeather, prizePool, actualClaimedAmount, isRunning,
             canStartNewRound, hasNewCreatorFees, pendingRewards>>
poolVars == <<prizePool, actualClaimedAmount, hasNewCreatorFees>>
startVars == <<isRunning, canStartNewRound, timers>>
envVars == <<creds, scope>>
vars == <<holders, currentWeather, prizePool, actualClaimedAmount, isRunning,
          canStartNewRound, hasNewCreatorFees, pendingRewards, winners,
          lastCreatorFeesCheck, timers, payouts, feeChecks, fetches, now, creds, ev,
          scope>>

TimerFields == {"slotInterval", "weatherInterval", "lightningInterval",
                "fetchInterval", "feeCheckInterval"}

\* at most this many timers of one field armed (a second start leaks one)
MaxArmed == 1
\* ... and where start is called again on a started service
MaxArmedLife == 2
\* at most this many fetchTokenHolders / checkCreatorFees calls suspended
MaxFetches == 1
MaxFeeChecks == 1

\* addWinner keeps the last 50 winners
WinnersKept == 50

\* an event: the fields of the emitted object the listeners read; symbols and
\* multiplier2 (twice the `multiplier` of the result) are those of
\* 'slot-result', amount that of 'actual-amount-set'
NoEmit == [name |-> "none", winner |-> null, prize |-> 0, winType |-> "none",
           symbols |-> null, multiplier2 |-> 0, amount |-> 0]
Ev(op, ret, emitted) ==
    [op |-> op, id |-> null, ret |-> ret, emitted |-> emitted, given |-> {}]
\* ... of an operation that was given a reward id
EvId(op, id, ret) ==
    [op |-> op, id |-> id, ret |-> ret, emitted |-> NoEmit, given |-> {}]

\* setInterval / setTimeout stored in the field
setTimer(t, k) == [t EXCEPT ![k] = [armed |-> @.armed + 1, live |-> TRUE]]
\* if (field) clearInterval(field): a handle already fired or cleared is a no-op
clearTimer(t, k) ==
    IF t[k].live THEN [t EXCEPT ![k] = [armed |-> @.armed - 1, live |-> FALSE]] ELSE t
\* a setTimeout fires: it is no longer armed
firedTimer(t, k, byHandle) ==
    [t EXCEPT ![k] = [armed |-> @.armed - 1, live |-> @.live /\ ~byHandle]]
\* which armed timer of the field can fire: the one the field holds, or a leaked one
CanFire(k, byHandle) ==
    IF byHandle THEN timers[k].live
    ELSE timers[k].armed > (IF timers[k].live THEN 1 ELSE 0)

\* the state after `new SlotStormService(tokenMint)`
Constructed ==
    /\ holders = <<>>
    /\ currentWeather = [type |-> "sunny", multiplier2 |-> 2, duration |-> 300000]
    /\ prizePool = 0
    /\ actualClaimedAmount = 0
    /\ isRunning = FALSE
    /\ canStartNewRound = TRUE
    /\ hasNewCreatorFees = FALSE
    /\ pendingRewards = <<>>
    /\ winners = <<>>
    /\ lastCreatorFeesCheck = 0
    /\ timers = [k \in TimerFields |-> [armed |-> 0, live |-> FALSE]]
    /\ payouts = {}
    /\ feeChecks = {}
    /\ fetches = [c \in {"timer", "start"} |-> 0]
    /\ now = StartTime
    /\ ev = Ev("init", "none", NoEmit)

\* the state after start() has returned, its first fetch having found the
\* holders `list` and its first fee check nothing to claim
Started(list) ==
    /\ holders = updateHolders(lotteryHolders(list))
    /\ currentWeather = [type |-> "sunny", multiplier2 |-> 2, duration |-> 300000]
    /\ prizePool = 0
    /\ actualClaimedAmount = 0
    /\ isRunning = TRUE
    /\ canStartNewRound = TRUE
    /\ hasNewCreatorFees = FALSE
    /\ pendingRewards = <<>>
    /\ winners = <<>>
    /\ lastCreatorFeesCheck = 0
    /\ timers = [k \in TimerFields |-> [armed |-> 1, live |-> TRUE]]
    /\ payouts = {}
    /\ feeChecks = {}
    /\ fetches = [c \in {"timer", "start"} |-> 0]
    /\ now = StartTime
    /\ ev = Ev("init", "none", NoEmit)

\* ------------------------------------------------------------------------
\* The reward ledger
\* ------------------------------------------------------------------------

\* confirmRewardTransaction that does not ask for the status to be pending
confirmedAnyStatus(rewards, id, txHash) ==
    LET hits == {i \in 1..Len(rewards) : rewardId(rewards[i]) = id}
        first == CHOOSE i \in hits : \A j \in hits : i <= j
    IN  IF hits = {} THEN rewards
        ELSE [rewards EXCEPT ![first].status = "confirmed", ![first].txHash = txHash]

\* confirmRewardTransaction on the ledger
confirmed(rewards, id, txHash) ==
    LET i == findReward(rewards, id, "pending")
    IN  IF i = 0 THEN rewards
        ELSE [rewards EXCEPT ![i].status = "confirmed", ![i].txHash = txHash]

\* failRewardTransaction on the ledger
failed(rewards, id) ==
    LET i == findReward(rewards, id, "pending")
    IN  IF i = 0 THEN rewards ELSE [rewards EXCEPT ![i].status = "failed"]

\* retryFailedReward that settles the reward instead of reopening it
retriedToConfirmed(rewards, id) ==
    LET i == findReward(rewards, id, "failed")
    IN  IF i = 0 THEN rewards ELSE [rewards EXCEPT ![i].status = "confirmed"]

\* a retryFailedReward that reopens the reward whatever its status
retriedAnyStatus(rewards, id) ==
    LET hits == {i \in 1..Len(rewards) : rewardId(rewards[i]) = id}
        first == CHOOSE i \in hits : \A j \in hits : i <= j
    IN  IF hits = {} THEN rewards ELSE [rewards EXCEPT ![first].status = "pending"]

\* retryFailedReward on the ledger
retried(rewards, id) ==
    LET i == findReward(rewards, id, "failed")
    IN  IF i = 0 THEN rewards ELSE [rewards EXCEPT ![i].status = "pending"]

\* confirmRewardTransaction that leaves the gate as it found it
gateKept(rewards, id, txHash, gate) == gate

\* the gate after confirmRewardTransaction: recomputed when a reward was found
gateAfterConfirm(rewards, id, txHash, gate) ==
    IF findReward(rewards, id, "pending") = 0 THEN gate
    ELSE checkPendingRewards(confirmed(rewards, id, txHash))

\* the gate after failRewardTransaction: blocked when a reward was found
gateAfterFail(rewards, id, gate) ==
    IF findReward(rewards, id, "pending") = 0 THEN gate ELSE FALSE

\* a distributeReward that reaches the network whatever the credentials
payoutAlwaysSuspends(credentials) == TRUE

\* the synchronous start of distributeReward, run by the 'reward-pending'
\* listener inside createPendingReward: without credentials, or with a key
\* that does not decode, the reward fails at once; otherwise the call
\* suspends on the network
payoutSuspends(credentials) == credentials = "ok"

\* a reward that is recorded as a slot win whatever the draw was
newRewardAsSlot(winner, amount, winType) ==
    [winner |-> winner, amount |-> amount, winType |-> "slot",
     txHash |-> "none", timestamp |-> now, status |-> "pending"]

\* the PendingReward createPendingReward builds
newReward(winner, amount, winType) ==
    [winner |-> winner, amount |-> amount, winType |-> winType,
     txHash |-> "none", timestamp |-> now, status |-> "pending"]

\* the ledger after createPendingReward and its 'reward-pending' listener
ledgerAfterCreate(rewards, winner, amount, winType) ==
    LET r == newReward(winner, amount, winType)
    IN  IF payoutSuspends(creds) THEN Append(rewards, r)
        ELSE failed(Append(rewards, r), rewardId(r))

\* addWinner: newest first, the last 50 kept
addWinner(ws, w) ==
    LET all == <<w>> \o ws
    IN  IF Len(all) > WinnersKept THEN SubSeq(all, 1, WinnersKept) ELSE all

\* createPendingReward that leaves the gate open
createPendingRewardGateOpen(winner, amount, winType) ==
    /\ Len(pendingRewards) < scope.rewards
    /\ pendingRewards' = ledgerAfterCreate(pendingRewards, winner, amount, winType)
    /\ canStartNewRound' = canStartNewRound
    /\ payouts' = IF payoutSuspends(creds) THEN payouts \cup {Len(pendingRewards) + 1}
                  ELSE payouts

\* createPendingReward(winner, amount, winType) with everything its event
\* sets off before it returns
createPendingReward(winner, amount, winType) ==
    /\ Len(pendingRewards) < scope.rewards
    /\ pendingRewards' = ledgerAfterCreate(pendingRewards, winner, amount, winType)
    /\ canStartNewRound' = FALSE
    /\ payouts' = IF payoutSuspends(creds) THEN payouts \cup {Len(pendingRewards) + 1}
                  ELSE payouts

\* a draw that leaves the fee batch as it found it
consumeFeesKeepsBatch ==
    UNCHANGED <<hasNewCreatorFees, prizePool, actualClaimedAmount>>

\* the fee batch is spent: spinSlots 183-186, lightningStrike 350-353
consumeFees ==
    /\ hasNewCreatorFees' = FALSE
    /\ prizePool' = 0
    /\ actualClaimedAmount' = 0

\* ------------------------------------------------------------------------
\* Draws
\* ------------------------------------------------------------------------

\* a draw that empties the pool before it returns without drawing
skippedResets(op, why) ==
    /\ ev' = Ev(op, why, NoEmit)
    /\ hasNewCreatorFees' = FALSE
    /\ prizePool' = 0
    /\ actualClaimedAmount' = 0
    /\ UNCHANGED <<pendingRewards, canStartNewRound, payouts, winners>>

\* a draw that returns before drawing
skipped(op, why) ==
    /\ ev' = Ev(op, why, NoEmit)
    /\ UNCHANGED <<pendingRewards, canStartNewRound, payouts, poolVars, winners>>

\* the draw of spinSlots, for the symbols generateSlotSymbols returned and
\* the point selectWeightedWinner draws
spin(op, symbols, random2) ==
    LET winResult == evaluateSlotResult(symbols)
        win == winResult.type # "none"
        winner == IF win THEN selectWeightedWinner(holders, random2) ELSE null
        prize == IF win
                 THEN calculatePrize(prizePool, winResult.type, winResult.multiplier,
                                     currentWeather.multiplier2)
                 ELSE 0
        pays == winner # null /\ prize > 0
        result == [name |-> "slot-result", winner |-> winner, prize |-> prize,
                   winType |-> winResult.type, symbols |-> symbols,
                   multiplier2 |-> winResult.multiplier * currentWeather.multiplier2]
    IN  /\ IF pays
           THEN createPendingReward(winner, prize, "slot")
           ELSE UNCHANGED <<pendingRewards, canStartNewRound, payouts>>
        /\ consumeFees
        \* the service's 'slot-result' listener
        /\ winners' = IF pays
                      THEN addWinner(winners, [address |-> winner, amount |-> prize,
                                               timestamp |-> now, winType |-> "slot"])
                      ELSE winners
        /\ ev' = Ev(op, "drawn", result)

\* spinSlots()
spinSlots(op) ==
    IF Len(holders) = 0 THEN skipped(op, "no-holders")
    ELSE IF ~hasNewCreatorFees /\ prizePool > 0 THEN skipped(op, "stale-funds")
    ELSE IF prizePool <= 0 THEN skipped(op, "no-pool")
    ELSE \E symbols \in scope.symbols :
            IF evaluateSlotResult(symbols).type = "none"
            THEN spin(op, symbols, 0)
            ELSE \E random2 \in RandomPoints(holders) : spin(op, symbols, random2)

\* the strike of lightningStrike, for the point selectWeightedWinner draws
strike(op, random2) ==
    LET winner == selectWeightedWinner(holders, random2)
        prize == lightningPrize(prizePool)
    IN  IF winner = null THEN skipped(op, "no-winner")
        ELSE IF prize < MinLightningPrize THEN skipped(op, "below-minimum")
        ELSE /\ createPendingReward(winner, prize, "lightning")
             /\ consumeFees
             \* the service's 'lightning-strike' listener
             /\ winners' = addWinner(winners, [address |-> winner, amount |-> prize,
                                               timestamp |-> now, winType |-> "lightning"])
             /\ ev' = Ev(op, "drawn", [NoEmit EXCEPT !.name = "lightning-strike",
                                                     !.winner = winner, !.prize = prize,
                                                     !.winType = "lightning"])

\* lightningStrike()
lightningStrike(op) ==
    IF Len(holders) = 0 THEN skipped(op, "no-holders")
    ELSE IF ~canStartNewRound THEN skipped(op, "blocked")
    ELSE IF ~hasNewCreatorFees /\ prizePool > 0 THEN skipped(op, "stale-funds")
    ELSE IF prizePool <= 0 THEN skipped(op, "no-pool")
    ELSE \E random2 \in RandomPoints(holders) : strike(op, random2)

\* the slotInterval callback of start()
ScheduledTick ==
    /\ timers["slotInterval"].armed > 0
    /\ IF canStartNewRound
       THEN spinSlots("slotTick")
       ELSE /\ canStartNewRound' = checkPendingRewards(pendingRewards)
            /\ ev' = Ev("slotTick", "blocked", NoEmit)
            /\ UNCHANGED <<pendingRewards, payouts, poolVars, winners>>
    /\ UNCHANGED <<holders, currentWeather, isRunning, lastCreatorFeesCheck, timers,
                   feeChecks, fetches, now, envVars>>

\* forceDraw() -> spinSlot()
ForceDraw ==
    /\ IF ~canStartNewRound
       THEN skipped("forceDraw", "blocked")
       ELSE spinSlots("forceDraw")
    /\ UNCHANGED <<holders, currentWeather, isRunning, lastCreatorFeesCheck, timers,
                   feeChecks, fetches, now, envVars>>

\* a scheduleLightningStrike that arms no timeout while the gate is blocked
scheduleUnlessBlocked(t) ==
    IF isRunning /\ canStartNewRound THEN setTimer(t, "lightningInterval") ELSE t

\* scheduleLightningStrike(): the next timeout, if running
scheduleLightningStrike(t) ==
    IF isRunning THEN setTimer(t, "lightningInterval") ELSE t

\* the setTimeout callback of scheduleLightningStrike: the strike, then the
\* next timeout if still running
LightningFires ==
    \E byHandle \in BOOLEAN :
        /\ timers["lightningInterval"].armed > 0
        /\ CanFire("lightningInterval", byHandle)
        /\ lightningStrike("lightning")
        /\ timers' = scheduleLightningStrike(
                         firedTimer(timers, "lightningInterval", byHandle))
        /\ UNCHANGED <<holders, currentWeather, isRunning, lastCreatorFeesCheck,
                       feeChecks, fetches, now, envVars>>

\* the weatherInterval callback: changeWeather(), which re-arms the timer
ChangeWeather ==
    /\ timers["weatherInterval"].armed > 0
    /\ \E type \in scope.weather : currentWeather' = weatherConfig(type)
    /\ timers' = setTimer(clearTimer(timers, "weatherInterval"), "weatherInterval")
    /\ ev' = Ev("changeWeather", "none", [NoEmit EXCEPT !.name = "weather-changed"])
    /\ UNCHANGED <<holders, prizePool, actualClaimedAmount, isRunning, canStartNewRound,
                   hasNewCreatorFees, pendingRewards, winners, lastCreatorFeesCheck,
                   payouts, feeChecks, fetches, now, envVars>>

\* ------------------------------------------------------------------------
\* The reward interface and the pool setters
\* ------------------------------------------------------------------------

\* an id no reward has
UnknownId == <<0, "ZZZZZZZZ">>

\* the ids a caller can pass: those of the ledger, and an unknown one
Ids == {rewardId(pendingRewards[i]) : i \in DOMAIN pendingRewards} \cup {UnknownId}

Bool(b) == IF b THEN "true" ELSE "false"

\* a setActualClaimedAmount that adds the amount to the pool
setActualAdditive(amount) ==
    /\ actualClaimedAmount' = amount
    /\ prizePool' = prizePool + amount
    /\ hasNewCreatorFees' = TRUE

\* setActualClaimedAmount(amount)
setActualClaimedAmount(amount) ==
    /\ actualClaimedAmount' = amount
    /\ prizePool' = amount
    /\ hasNewCreatorFees' = TRUE

\* a resetPrizePool that clears the flag and leaves the amounts
resetFlagOnly ==
    /\ actualClaimedAmount' = actualClaimedAmount
    /\ prizePool' = prizePool
    /\ hasNewCreatorFees' = FALSE

\* resetPrizePool()
resetPrizePool ==
    /\ actualClaimedAmount' = 0
    /\ prizePool' = 0
    /\ hasNewCreatorFees' = FALSE

\* addToPrizePool(amount)
addToPrizePool(pool, amount) == pool + amount

\* the service's public setActualClaimedAmount(amount)
SetActualClaimedAmount ==
    /\ \E amount \in scope.claims :
          /\ setActualClaimedAmount(amount)
          /\ ev' = Ev("setActualClaimedAmount", "none",
                      [NoEmit EXCEPT !.name = "actual-amount-set", !.amount = amount])
    /\ UNCHANGED <<holders, currentWeather, isRunning, canStartNewRound, pendingRewards,
                   winners, lastCreatorFeesCheck, timers, payouts, feeChecks, fetches,
                   now, envVars>>

\* the service's public confirmRewardTransaction(rewardId, txHash)
ConfirmRewardTransaction ==
    \E id \in Ids, txHash \in scope.txs :
        /\ pendingRewards' = confirmed(pendingRewards, id, txHash)
        /\ canStartNewRound' = gateAfterConfirm(pendingRewards, id, txHash, canStartNewRound)
        /\ ev' = EvId("confirmRewardTransaction", id,
                      Bool(findReward(pendingRewards, id, "pending") # 0))
        /\ UNCHANGED <<holders, currentWeather, isRunning, poolVars, winners,
                       lastCreatorFeesCheck, timers, payouts, feeChecks, fetches, now,
                       envVars>>

\* the service's public failRewardTransaction(rewardId, error)
FailRewardTransaction ==
    \E id \in Ids :
        /\ pendingRewards' = failed(pendingRewards, id)
        /\ canStartNewRound' = gateAfterFail(pendingRewards, id, canStartNewRound)
        /\ ev' = EvId("failRewardTransaction", id,
                      Bool(findReward(pendingRewards, id, "pending") # 0))
        /\ UNCHANGED <<holders, currentWeather, isRunning, poolVars, winners,
                       lastCreatorFeesCheck, timers, payouts, feeChecks, fetches, now,
                       envVars>>

\* the service's public retryFailedReward(rewardId)
RetryFailedReward ==
    \E id \in Ids :
        /\ pendingRewards' = retried(pendingRewards, id)
        /\ ev' = EvId("retryFailedReward", id,
                      Bool(findReward(pendingRewards, id, "failed") # 0))
        /\ UNCHANGED <<holders, currentWeather, isRunning, canStartNewRound, poolVars,
                       winners, lastCreatorFeesCheck, timers, payouts, feeChecks, fetches,
                       now, envVars>>

\* ------------------------------------------------------------------------
\* Payouts: distributeReward after its awaits
\* ------------------------------------------------------------------------

\* sendAndConfirmTransaction resolved: confirm by id, then deduct the amount
PayoutSucceeds ==
    \E i \in payouts, signature \in scope.txs :
        LET reward == pendingRewards[i]
        IN  /\ pendingRewards' = confirmed(pendingRewards, rewardId(reward), signature)
            /\ canStartNewRound' = gateAfterConfirm(pendingRewards, rewardId(reward),
                                                    signature, canStartNewRound)
            /\ prizePool' = addToPrizePool(prizePool, 0 - reward.amount)
            /\ payouts' = payouts \ {i}
            /\ ev' = EvId("payout", rewardId(reward), "sent")
            /\ UNCHANGED <<holders, currentWeather, isRunning, actualClaimedAmount,
                           hasNewCreatorFees, winners, lastCreatorFeesCheck, timers,
                           feeChecks, fetches, now, envVars>>

\* getLatestBlockhash or sendAndConfirmTransaction rejected: fail by id
PayoutThrows ==
    \E i \in payouts :
        LET reward == pendingRewards[i]
        IN  /\ pendingRewards' = failed(pendingRewards, rewardId(reward))
            /\ canStartNewRound' = gateAfterFail(pendingRewards, rewardId(reward),
                                                 canStartNewRound)
            /\ payouts' = payouts \ {i}
            /\ ev' = EvId("payout", rewardId(reward), "threw")
            /\ UNCHANGED <<holders, currentWeather, isRunning, poolVars, winners,
                           lastCreatorFeesCheck, timers, feeChecks, fetches, now, envVars>>

\* ------------------------------------------------------------------------
\* The service: start, stop, holder refresh, fee check
\* ------------------------------------------------------------------------

Callers == {"timer", "start"}

\* the end of SlotStormService.start() with a SlotStormLottery.start() that
\* does not look at isRunning
startTailUnguarded ==
    /\ isRunning' = TRUE
    /\ canStartNewRound' = checkPendingRewards(pendingRewards)
    /\ timers' = setTimer(setTimer(setTimer(setTimer(setTimer(timers,
                      "slotInterval"), "weatherInterval"), "lightningInterval"),
                      "fetchInterval"), "feeCheckInterval")

\* SlotStormLottery.start() and the two setInterval calls that end
\* SlotStormService.start()
startTail ==
    LET lot == IF isRunning THEN timers
               ELSE setTimer(setTimer(setTimer(timers, "slotInterval"),
                                      "weatherInterval"), "lightningInterval")
    IN  /\ isRunning' = TRUE
        /\ canStartNewRound' = IF isRunning THEN canStartNewRound
                               ELSE checkPendingRewards(pendingRewards)
        /\ timers' = setTimer(setTimer(lot, "fetchInterval"), "feeCheckInterval")

\* what follows checkCreatorFees() in its caller
afterFeeCheck(cont) ==
    IF cont = "start" THEN startTail ELSE UNCHANGED startVars

\* checkCreatorFees() up to its first await, or to its end when it has none
checkCreatorFees(cont) ==
    IF creds = "missing"
    THEN /\ UNCHANGED <<poolVars, feeChecks>>
         /\ afterFeeCheck(cont)
    ELSE IF now - lastCreatorFeesCheck > ThrottleMs
    THEN LET call == [stage |-> "claiming", at |-> now, cont |-> cont]
         IN  /\ Cardinality(feeChecks) < MaxFeeChecks
             /\ call \notin feeChecks
             /\ feeChecks' = feeChecks \cup {call}
             /\ UNCHANGED <<poolVars, startVars>>
    ELSE /\ resetPrizePool
         /\ UNCHANGED feeChecks
         /\ afterFeeCheck(cont)

InFlightFetches == fetches["timer"] + fetches["start"]

\* starts not yet at their tail
StartsInFlight == fetches["start"] + Cardinality({c \in feeChecks : c.cont = "start"})

\* SlotStormService.start() up to its first await
Start ==
    /\ InFlightFetches < MaxFetches
    /\ timers["fetchInterval"].armed + StartsInFlight < scope.armed
    /\ fetches' = [fetches EXCEPT !["start"] = @ + 1]
    /\ ev' = Ev("start", "none", NoEmit)
    /\ UNCHANGED <<lotVars, winners, lastCreatorFeesCheck, timers, payouts, feeChecks,
                   now, envVars>>

\* SlotStormService.stop(), SlotStormLottery.stop() included
Stop ==
    /\ isRunning' = FALSE
    /\ timers' = clearTimer(clearTimer(clearTimer(clearTimer(clearTimer(timers,
                     "fetchInterval"), "feeCheckInterval"), "slotInterval"),
                     "weatherInterval"), "lightningInterval")
    /\ ev' = Ev("stop", "none", NoEmit)
    /\ UNCHANGED <<holders, currentWeather, poolVars, canStartNewRound, pendingRewards,
                   winners, lastCreatorFeesCheck, payouts, feeChecks, fetches, now,
                   envVars>>

\* the fetchInterval callback: fetchTokenHolders() up to its await
FetchTimerFires ==
    /\ timers["fetchInterval"].armed > 0
    /\ InFlightFetches < MaxFetches
    /\ fetches' = [fetches EXCEPT !["timer"] = @ + 1]
    /\ ev' = Ev("fetchTick", "none", NoEmit)
    /\ UNCHANGED <<lotVars, winners, lastCreatorFeesCheck, timers, payouts, feeChecks,
                   now, envVars>>

\* a fetchTokenHolders that empties the lottery's holders when it fails
holdersClearedOnError(ok, list, hs) ==
    IF ok THEN updateHolders(lotteryHolders(list)) ELSE <<>>

\* the lottery's holders after fetchTokenHolders: replaced through
\* updateLotteryHolders, or as they were when the fetch threw
holdersAfterFetch(ok, list, hs) ==
    IF ok THEN updateHolders(lotteryHolders(list)) ELSE hs

\* fetchTokenHolders() after its await: the holders replaced, or the error
\* swallowed; start() then goes on to its fee check
FetchReturns ==
    \E c \in Callers, ok \in BOOLEAN, list \in scope.fetched :
        /\ fetches[c] > 0
        /\ fetches' = [fetches EXCEPT ![c] = @ - 1]
        /\ holders' = holdersAfterFetch(ok, list, holders)
        /\ IF c = "start" THEN checkCreatorFees("start")
           ELSE UNCHANGED <<poolVars, feeChecks, startVars>>
        /\ ev' = Ev("fetchReturns", IF ok THEN "ok" ELSE "error", NoEmit)
        /\ UNCHANGED <<currentWeather, pendingRewards, winners, lastCreatorFeesCheck,
                       payouts, now, envVars>>

\* the feeCheckInterval callback
FeeCheckTimerFires ==
    /\ timers["feeCheckInterval"].armed > 0
    /\ checkCreatorFees("timer")
    /\ ev' = Ev("feeCheckTick", "none", NoEmit)
    /\ UNCHANGED <<holders, currentWeather, pendingRewards, winners,
                   lastCreatorFeesCheck, payouts, fetches, now, envVars>>

\* what claimRealCreatorFees can return: the amount claimed, or no success
ClaimResults ==
    IF creds = "ok" THEN scope.claims \cup {0, -1} ELSE {-1}

\* claimRealCreatorFees returned to checkCreatorFees
ClaimReturns ==
    \E c \in feeChecks, claimedAmount \in ClaimResults :
        /\ c.stage = "claiming"
        /\ IF claimedAmount > 0
           THEN /\ setActualClaimedAmount(claimedAmount)
                /\ feeChecks' = (feeChecks \ {c}) \cup {[c EXCEPT !.stage = "distributing"]}
                /\ UNCHANGED startVars
           ELSE /\ resetPrizePool
                /\ feeChecks' = feeChecks \ {c}
                /\ afterFeeCheck(c.cont)
        /\ ev' = Ev("claimReturns",
                    IF claimedAmount > 0 THEN "claimed"
                    ELSE IF claimedAmount = 0 THEN "nothing" ELSE "failed",
                    NoEmit)
        /\ UNCHANGED <<holders, currentWeather, pendingRewards, winners,
                       lastCreatorFeesCheck, payouts, fetches, now, envVars>>

\* executeTripleDistribution returned, or threw, to checkCreatorFees
DistributionReturns ==
    \E c \in feeChecks, ok \in BOOLEAN :
        /\ c.stage = "distributing"
        /\ feeChecks' = feeChecks \ {c}
        /\ IF ok
           THEN /\ lastCreatorFeesCheck' = c.at
                /\ UNCHANGED poolVars
           ELSE /\ resetPrizePool
                /\ UNCHANGED lastCreatorFeesCheck
        /\ afterFeeCheck(c.cont)
        /\ ev' = Ev("distributionReturns", IF ok THEN "ok" ELSE "threw", NoEmit)
        /\ UNCHANGED <<holders, currentWeather, pendingRewards, winners, payouts,
                       fetches, now, envVars>>

\* time passes
Tick ==
    \E d \in TickSteps :
        /\ now + d <= MaxTime
        /\ now' = now + d
        /\ ev' = Ev("tick", "none", NoEmit)
        /\ UNCHANGED <<lotVars, winners, lastCreatorFeesCheck, timers, payouts,
                       feeChecks, fetches, envVars>>

\* ------------------------------------------------------------------------
\* Specifications
\* ------------------------------------------------------------------------

\* CREATOR_WALLET_PUBLIC_KEY / CREATOR_WALLET_PRIVATE_KEY: both set and valid,
\* one missing, or a private key that does not decode
Credentials == {"ok", "missing", "malformed"}

\* the inputs of the whole program
WideScope ==
    [rewards |-> MaxRewardsWide,
     symbols |-> {Jackpot3, NoWin3},
     claims |-> {SOL},
     fetched |-> {HoldersA},
     weather |-> {"storm"},
     txs |-> {"sigA"},
     armed |-> MaxArmed]

\* the inputs of the draw and reward cycle
CoreScope ==
    [rewards |-> MaxRewards,
     symbols |-> {Jackpot3, NoWin3},
     claims |-> {SOL},
     fetched |-> {HoldersA},
     weather |-> WeatherTypes,
     txs |-> {"sigA"}]

\* the whole program, from construction
Init ==
    /\ Constructed
    /\ creds \in Credentials
    /\ scope = WideScope

Next ==
    \/ Start
    \/ Stop
    \/ FetchTimerFires
    \/ FetchReturns
    \/ FeeCheckTimerFires
    \/ ClaimReturns
    \/ DistributionReturns
    \/ ScheduledTick
    \/ ForceDraw
    \/ LightningFires
    \/ ChangeWeather
    \/ SetActualClaimedAmount
    \/ ConfirmRewardTransaction
    \/ FailRewardTransaction
    \/ RetryFailedReward
    \/ PayoutSucceeds
    \/ PayoutThrows
    \/ Tick

Spec == Init /\ [][Next]_vars

\* the draw and reward cycle of a started service
InitCore ==
    /\ Started(HoldersA)
    /\ creds \in {"ok", "missing"}
    /\ scope = CoreScope

NextCore ==
    \/ ScheduledTick
    \/ ForceDraw
    \/ LightningFires
    \/ SetActualClaimedAmount
    \/ ConfirmRewardTransaction
    \/ FailRewardTransaction
    \/ RetryFailedReward
    \/ PayoutSucceeds
    \/ PayoutThrows

SpecCore == InitCore /\ [][NextCore]_vars

\* ------------------------------------------------------------------------
\* Properties
\* ------------------------------------------------------------------------

\* the operations that attempt a draw: the slotInterval callback, the
\* lightning timeout, forceDraw
DrawOps == {"slotTick", "lightning", "forceDraw"}

\* C1: in every reachable state canStartNewRound is true if and only if no
\* reward of the ledger is Pending or Failed (so it is false after every
\* creation and true again once the only unresolved reward is confirmed)
C1_GateIffNothingUnresolved ==
    canStartNewRound <=>
        ~ \E i \in DOMAIN pendingRewards :
              pendingRewards[i].status \in {"pending", "failed"}

\* the only reward of the ledger was confirmed by the operator and the gate
\* is open again
C1_GateReopenedByConfirm ==
    /\ ev.op = "confirmRewardTransaction"
    /\ ev.ret = "true"
    /\ Len(pendingRewards) = 1
    /\ pendingRewards[1].status = "confirmed"
    /\ canStartNewRound

\* C2: at most one reward is Pending or Failed at any time, and a reward is
\* created only by a draw, only while canStartNewRound is true, and only when
\* every earlier reward is Confirmed
C2_OneUnresolvedAtATime ==
    /\ [](Cardinality({i \in DOMAIN pendingRewards :
                          pendingRewards[i].status # "confirmed"}) <= 1)
    /\ [][Len(pendingRewards') > Len(pendingRewards) =>
            /\ canStartNewRound
            /\ \A i \in DOMAIN pendingRewards : pendingRewards[i].status = "confirmed"
            /\ Len(pendingRewards') = Len(pendingRewards) + 1
            /\ ev'.op \in DrawOps]_vars

\* a second reward was created after the first was confirmed
C2_SecondAfterFirstConfirmed ==
    /\ Len(pendingRewards) = 2
    /\ pendingRewards[1].status = "confirmed"
    /\ pendingRewards[2].status = "pending"
    /\ ~canStartNewRound

\* C3: every reward a draw opens has an amount no greater than the pool at
\* the moment of the draw
C3_RewardWithinPool ==
    [][Len(pendingRewards') > Len(pendingRewards) =>
          pendingRewards'[Len(pendingRewards')].amount <= prizePool]_vars

\* a reward promises more than any batch of fees ever claimed
C3_PromiseExceedsEveryClaim ==
    \E i \in DOMAIN pendingRewards :
        \A a \in scope.claims : pendingRewards[i].amount > a

C5_OneRewardPerBatch ==
    /\ [][Len(pendingRewards') > Len(pendingRewards) =>
            hasNewCreatorFees /\ ~hasNewCreatorFees']_vars
    /\ [][(~hasNewCreatorFees /\ hasNewCreatorFees') =>
            ev'.op \in {"setActualClaimedAmount", "claimReturns"}]_vars

\* a second reward was drawn, from a second batch, and spent it
C5_SecondRewardSpentItsBatch ==
    /\ ev.op \in DrawOps
    /\ ev.ret = "drawn"
    /\ ev.emitted.winner # null
    /\ Len(pendingRewards) = 2
    /\ ~hasNewCreatorFees

\* C6: the prize pool is >= 0 in every reachable state
C6_PoolNonNegative == prizePool >= 0

\* a confirmed payout was deducted from a pool the draw had emptied
C6_PoolNegativeAfterPayout ==
    /\ ev.op = "payout"
    /\ ev.ret = "sent"
    /\ prizePool < 0

\* C7: confirmRewardTransaction and failRewardTransaction with an id that no
\* Pending reward has return false and change no reward, nor the gate, the
\* pool or the winners
C7_ConfirmFailOfNonPendingIsNoOp ==
    [][(/\ ev'.op \in {"confirmRewardTransaction", "failRewardTransaction"}
        /\ ~ \E i \in DOMAIN pendingRewards :
                 /\ rewardId(pendingRewards[i]) = ev'.id
                 /\ pendingRewards[i].status = "pending")
       => /\ ev'.ret = "false"
          /\ UNCHANGED <<pendingRewards, canStartNewRound, prizePool,
                         actualClaimedAmount, hasNewCreatorFees, winners>>]_vars

\* a confirmed reward was confirmed again: false was returned
C7_ConfirmedAgain ==
    /\ ev.op = "confirmRewardTransaction"
    /\ ev.ret = "false"
    /\ \E i \in DOMAIN pendingRewards :
          /\ rewardId(pendingRewards[i]) = ev.id
          /\ pendingRewards[i].status = "confirmed"
          /\ pendingRewards[i].txHash # "none"

\* C8: retryFailedReward on a Failed reward makes it Pending, returns true
\* and leaves the gate blocked; on any other id it returns false and changes
\* nothing
C8_RetryReopensFailed ==
    [][ev'.op = "retryFailedReward" =>
          LET hits == {i \in DOMAIN pendingRewards :
                          /\ rewardId(pendingRewards[i]) = ev'.id
                          /\ pendingRewards[i].status = "failed"}
          IN  IF hits # {}
              THEN /\ ev'.ret = "true"
                   /\ \E i \in hits :
                         pendingRewards' = [pendingRewards EXCEPT ![i].status = "pending"]
                   /\ ~canStartNewRound
                   /\ ~canStartNewRound'
                   /\ UNCHANGED <<prizePool, actualClaimedAmount, hasNewCreatorFees,
                                  winners>>
              ELSE /\ ev'.ret = "false"
                   /\ UNCHANGED <<pendingRewards, canStartNewRound, prizePool,
                                  actualClaimedAmount, hasNewCreatorFees, winners>>]_vars

\* a Failed reward was retried: it is Pending and the gate is blocked
C8_RetriedIsPending ==
    /\ ev.op = "retryFailedReward"
    /\ ev.ret = "true"
    /\ ~canStartNewRound
    /\ \E i \in DOMAIN pendingRewards :
          /\ rewardId(pendingRewards[i]) = ev.id
          /\ pendingRewards[i].status = "pending"

\* C9: a Failed reward stays in the ledger with its winner and amount; no
\* step other than retryFailedReward changes its status, and that one makes
\* it Pending; while a reward is Failed the gate is blocked and no draw
\* operation draws; and the gate is unblocked only by a confirmation
C9_FailedRewardBlocksUntilResolved ==
    /\ [][(\E i \in DOMAIN pendingRewards : pendingRewards[i].status = "failed") =>
            /\ \A i \in DOMAIN pendingRewards :
                  pendingRewards[i].status = "failed" =>
                      /\ i \in DOMAIN pendingRewards'
                      /\ pendingRewards'[i].winner = pendingRewards[i].winner
                      /\ pendingRewards'[i].amount = pendingRewards[i].amount
                      /\ \/ pendingRewards'[i].status = "failed"
                         \/ /\ pendingRewards'[i].status = "pending"
                            /\ ev'.op = "retryFailedReward"
            /\ ev'.op \in DrawOps =>
                  /\ ev'.ret # "drawn"
                  /\ UNCHANGED <<pendingRewards, prizePool, actualClaimedAmount,
                                 hasNewCreatorFees, winners>>
            /\ ~canStartNewRound
            /\ ~canStartNewRound']_vars
    /\ [][(~canStartNewRound /\ canStartNewRound') =>
            /\ ev'.op \in {"confirmRewardTransaction", "payout"}
            /\ \A i \in DOMAIN pendingRewards' :
                  pendingRewards'[i].status = "confirmed"]_vars

\* a scheduled draw found holders and fresh funds, and was blocked by a
\* Failed reward
C9_TickBlockedByFailed ==
    /\ ev.op = "slotTick"
    /\ ev.ret = "blocked"
    /\ Len(holders) > 0
    /\ hasNewCreatorFees
    /\ prizePool > 0
    /\ \E i \in DOMAIN pendingRewards : pendingRewards[i].status = "failed"

\* C10: when the payout of a Pending reward throws, the reward becomes Failed
\* and the gate stays blocked; when the credentials are missing, the reward a
\* draw creates is Failed at once, the gate is blocked, and the draw still
\* spends the batch, records the winner and emits its outcome
C10_PayoutFailureIsContained ==
    /\ [][(/\ ev'.op = "payout"
           /\ ev'.ret = "threw"
           /\ \E i \in DOMAIN pendingRewards :
                 /\ rewardId(pendingRewards[i]) = ev'.id
                 /\ pendingRewards[i].status = "pending")
          => /\ \E i \in DOMAIN pendingRewards :
                   /\ rewardId(pendingRewards[i]) = ev'.id
                   /\ pendingRewards[i].status = "pending"
                   /\ pendingRewards' = [pendingRewards EXCEPT ![i].status = "failed"]
             /\ ~canStartNewRound
             /\ ~canStartNewRound'
             /\ UNCHANGED <<prizePool, actualClaimedAmount, hasNewCreatorFees,
                            winners>>]_vars
    /\ [][(Len(pendingRewards') > Len(pendingRewards) /\ creds # "ok") =>
            LET r == pendingRewards'[Len(pendingRewards')]
            IN  /\ r.status = "failed"
                /\ ~canStartNewRound'
                /\ ev'.op \in DrawOps
                /\ ev'.ret = "drawn"
                /\ ev'.emitted.name \in {"slot-result", "lightning-strike"}
                /\ ev'.emitted.winner = r.winner
                /\ ev'.emitted.prize = r.amount
                /\ prizePool' = 0
                /\ actualClaimedAmount' = 0
                /\ ~hasNewCreatorFees'
                /\ Len(winners') = Len(winners) + 1
                /\ winners'[1].address = r.winner
                /\ winners'[1].amount = r.amount]_vars

\* without credentials a draw drew a winner, whose reward is Failed, and
\* emitted its result
C10_DrawCompletedWithoutCredentials ==
    /\ creds = "missing"
    /\ ev.op \in DrawOps
    /\ ev.ret = "drawn"
    /\ ev.emitted.winner # null
    /\ \E i \in DOMAIN pendingRewards :
          /\ pendingRewards[i].status = "failed"
          /\ pendingRewards[i].winner = ev.emitted.winner
    /\ ~canStartNewRound
    /\ prizePool = 0

\* ------------------------------------------------------------------------
\* Holder updates by a caller of the lottery
\* ------------------------------------------------------------------------

\* a caller's list has at most this many holders
MaxListed == 2

\* balances around the 1000-token ticket price, and ticket counts a caller
\* may put in the Holder objects it passes
Balances == {0, 999, 1000, 2500}
CallerTickets == {0, 7}

CallerHolders ==
    [wallet : {W2, W3}, balance : Balances, tickets : CallerTickets]

\* the Holder[] arguments of updateHolders of at most `listed` holders, the
\* empty one included
CallerLists(listed) == UNION {[1..n -> CallerHolders] : n \in 0..listed}

\* the wallets a Holder[] argument names
ListWallets(list) == {list[k].wallet : k \in 1..Len(list)}

\* an updateHolders that sets the supplied holders without clearing the map
UpdateHoldersMerging ==
    /\ \E list \in CallerLists(scope.listed) :
          /\ holders' = SetAll(holders, list)
          /\ ev' = [Ev("updateHolders", "none", NoEmit) EXCEPT !.given = ListWallets(list)]
    /\ UNCHANGED <<currentWeather, prizePool, actualClaimedAmount, isRunning,
                   canStartNewRound, hasNewCreatorFees, pendingRewards, winners,
                   lastCreatorFeesCheck, timers, payouts, feeChecks, fetches, now,
                   envVars>>

\* the lottery's public updateHolders(holders); the step records the wallets
\* of the list it was given
UpdateHolders ==
    /\ \E list \in CallerLists(scope.listed) :
          /\ holders' = updateHolders(list)
          /\ ev' = [Ev("updateHolders", "none", NoEmit) EXCEPT !.given = ListWallets(list)]
    /\ UNCHANGED <<currentWeather, prizePool, actualClaimedAmount, isRunning,
                   canStartNewRound, hasNewCreatorFees, pendingRewards, winners,
                   lastCreatorFeesCheck, timers, payouts, feeChecks, fetches, now,
                   envVars>>

\* the inputs of the draws over changing holders
HolderScope ==
    [rewards |-> MaxRewardsWide,
     symbols |-> {Jackpot3, NoWin3},
     claims |-> {SOL},
     fetched |-> {HoldersA},
     weather |-> {"sunny"},
     txs |-> {"sigA"},
     listed |-> MaxListed]

\* a started service whose lottery is handed new holder lists between draws
InitHolders ==
    /\ Started(HoldersA)
    /\ creds = "ok"
    /\ scope = HolderScope

NextHolders ==
    \/ UpdateHolders
    \/ SetActualClaimedAmount
    \/ ScheduledTick
    \/ ForceDraw
    \/ LightningFires

SpecHolders == InitHolders /\ [][NextHolders]_vars

\* ------------------------------------------------------------------------
\* One funded draw over every triple of symbols
\* ------------------------------------------------------------------------

\* every value generateSlotSymbols can return
AllTriples == {<<a, b, c>> : a \in AllSymbols, b \in AllSymbols, c \in AllSymbols}

\* the inputs of a draw of any three symbols
SymbolScope ==
    [rewards |-> MaxRewardsWide,
     symbols |-> AllTriples,
     claims |-> {SOL},
     fetched |-> {HoldersA},
     weather |-> {"sunny"},
     txs |-> {"sigA"}]

\* the state after start() has returned with the holders `list` and
\* setActualClaimedAmount(amount) has been called
Funded(list, amount) ==
    /\ holders = updateHolders(lotteryHolders(list))
    /\ currentWeather = [type |-> "sunny", multiplier2 |-> 2, duration |-> 300000]
    /\ prizePool = amount
    /\ actualClaimedAmount = amount
    /\ isRunning = TRUE
    /\ canStartNewRound = TRUE
    /\ hasNewCreatorFees = TRUE
    /\ pendingRewards = <<>>
    /\ winners = <<>>
    /\ lastCreatorFeesCheck = 0
    /\ timers = [k \in TimerFields |-> [armed |-> 1, live |-> TRUE]]
    /\ payouts = {}
    /\ feeChecks = {}
    /\ fetches = [c \in {"timer", "start"} |-> 0]
    /\ now = StartTime
    /\ ev = Ev("setActualClaimedAmount", "none",
               [NoEmit EXCEPT !.name = "actual-amount-set", !.amount = amount])

\* a started service with one claimed batch, and the draws that spend it
InitSymbols ==
    /\ Funded(HoldersA, SOL)
    /\ creds = "ok"
    /\ scope = SymbolScope

NextSymbols ==
    \/ ScheduledTick
    \/ ForceDraw

SpecSymbols == InitSymbols /\ [][NextSymbols]_vars

\* ------------------------------------------------------------------------
\* Draws over pools, outcome tiers and weathers
\* ------------------------------------------------------------------------

\* claimed amounts: 0.1 SOL (a lightning prize below the minimum), 0.2 SOL
\* (exactly the minimum), 1 SOL, and 20 SOL (above the caps of both prizes)
PrizeClaims == {SOL \div 10, SOL \div 5, SOL, 20 * SOL}

\* the inputs of the prize computations
PrizeScope ==
    [rewards |-> MaxRewardsWide,
     symbols |-> {Jackpot3, Large3, Medium3, Small3, Bonus3, NoWin3},
     claims |-> PrizeClaims,
     fetched |-> {HoldersA},
     weather |-> WeatherTypes,
     txs |-> {"sigA"}]

\* a started service: claims, weather changes and draws of every kind
InitPrize ==
    /\ Started(HoldersA)
    /\ creds = "ok"
    /\ scope = PrizeScope

NextPrize ==
    \/ SetActualClaimedAmount
    \/ ChangeWeather
    \/ ScheduledTick
    \/ ForceDraw
    \/ LightningFires

SpecPrize == InitPrize /\ [][NextPrize]_vars

\* ------------------------------------------------------------------------
\* Starts and stops of a service without credentials
\* ------------------------------------------------------------------------

\* the inputs of the life cycle: start may be called on a started service
LifeScope ==
    [rewards |-> MaxRewardsWide,
     symbols |-> {NoWin3},
     claims |-> {SOL},
     fetched |-> {HoldersA},
     weather |-> {"storm"},
     txs |-> {"sigA"},
     armed |-> MaxArmedLife]

\* from construction, with no creator wallet configured: the fee check
\* returns before it claims
InitLife ==
    /\ Constructed
    /\ creds = "missing"
    /\ scope = LifeScope

NextLife ==
    \/ Start
    \/ Stop
    \/ FetchTimerFires
    \/ FetchReturns
    \/ FeeCheckTimerFires
    \/ ScheduledTick
    \/ LightningFires
    \/ ChangeWeather

SpecLife == InitLife /\ [][NextLife]_vars

\* ------------------------------------------------------------------------
\* Properties of holders, selection, classification and prizes
\* ------------------------------------------------------------------------

\* C11: after updateHolders every stored holder has
\* tickets = max(1, floor(balance / 1000)), whatever tickets value the
\* caller supplied (no list the caller passes carries the right value for
\* a balance of 2500)
C11_TicketsFromBalance ==
    \A i \in 1..Len(holders) :
        /\ holders[i].balance < 1000 => holders[i].tickets = 1
        /\ holders[i].balance >= 1000 =>
               /\ holders[i].tickets * 1000 <= holders[i].balance
               /\ holders[i].balance < (holders[i].tickets + 1) * 1000

\* a holder of 2500 tokens and one of 999 stored with 2 tickets and 1, by
\* an updateHolders no list of which supplied 1 or 2 tickets
C11_TicketsRecomputed ==
    /\ ev.op = "updateHolders"
    /\ \E i, j \in 1..Len(holders) :
          /\ holders[i].balance = 2500 /\ holders[i].tickets = 2
          /\ holders[j].balance = 999 /\ holders[j].tickets = 1
    /\ \A list \in CallerLists(scope.listed) : \A k \in 1..Len(list) : list[k].tickets \notin {1, 2}

\* the wallets of the holders the lottery holds
Wallets(hs) == {hs[i].wallet : i \in 1..Len(hs)}

\* C12: every winner a draw records, in the emitted outcome and in the
\* reward it adds to the ledger, is a wallet of the holders the lottery
\* holds when it selects; and when there are holders with tickets, a
\* lightning strike never finds no winner and a winning spin never emits a
\* null winner
C12_WinnerIsCurrentHolder ==
    [][ev'.op \in DrawOps =>
          /\ ev'.emitted.winner # null => ev'.emitted.winner \in Wallets(holders)
          /\ Len(pendingRewards') > Len(pendingRewards) =>
                /\ pendingRewards'[Len(pendingRewards')].winner \in Wallets(holders)
                /\ pendingRewards'[Len(pendingRewards')].winner = ev'.emitted.winner
          /\ Len(holders) > 0 /\ SumTickets(holders) > 0 =>
                /\ ev'.ret # "no-winner"
                /\ ev'.ret = "drawn" /\ ev'.emitted.winType # "none" =>
                       ev'.emitted.winner # null]_vars

\* a draw won by the second of two holders that replaced those of the
\* first fetch
C12_WinnerAmongReplacedHolders ==
    /\ ev.op \in DrawOps /\ ev.ret = "drawn"
    /\ Len(holders) = 2
    /\ Wallets(holders) # Wallets(updateHolders(lotteryHolders(HoldersA)))
    /\ ev.emitted.winner = holders[2].wallet
    /\ Len(pendingRewards) = 1 /\ pendingRewards[1].winner = holders[2].wallet

\* C13: for every random point p in [0, totalTickets) selectWeightedWinner
\* returns the holder whose half-open range [start, start + tickets), in
\* holder order, contains p, the points equal to a cumulative ticket sum
\* included (random2 is 2p, start the tickets of the holders before)
C13_HalfOpenRanges ==
    \A random2 \in RandomPoints(holders) : \A i \in 1..Len(holders) :
        LET start == SumTickets(SubSeq(holders, 1, i - 1))
        IN  (2 * start <= random2 /\ random2 < 2 * (start + holders[i].tickets))
                => selectWeightedWinner(holders, random2) = holders[i].wallet

\* a draw won by the first of two holders, who is also returned for the
\* point equal to its tickets, the point that opens the range of the second
C13_BoundaryGoesToEarlierHolder ==
    /\ ev.op \in DrawOps /\ ev.ret = "drawn" /\ ev.emitted.winner = holders[1].wallet
    /\ Len(holders) = 2
    /\ 2 * holders[1].tickets \in RandomPoints(holders)
    /\ selectWeightedWinner(holders, 2 * holders[1].tickets) = holders[1].wallet
    /\ holders[1].wallet # holders[2].wallet

\* the outcome a spin emitted
SpinDrawn(e) == e.op \in {"slotTick", "forceDraw"} /\ e.ret = "drawn"

\* how many of the three symbols are equal to the first, second, third
AllEqual(symbols) == symbols[1] = symbols[2] /\ symbols[2] = symbols[3]
AllDifferent(symbols) ==
    symbols[1] # symbols[2] /\ symbols[2] # symbols[3] /\ symbols[1] # symbols[3]
HasBonusPair(symbols) ==
    (\E i \in 1..3 : symbols[i] = "bolt") /\ (\E i \in 1..3 : symbols[i] = "fire")

\* the outcome carries this tier, and this tier multiplier times the
\* weather multiplier
Classified(e, type, multiplier) ==
    /\ e.emitted.winType = type
    /\ e.emitted.multiplier2 = multiplier * currentWeather.multiplier2

C15_BonusPairIsMedium8 ==
    [][SpinDrawn(ev') =>
          (HasBonusPair(ev'.emitted.symbols) /\ ~AllEqual(ev'.emitted.symbols)
              => Classified(ev', "medium", 8))]_vars

\* a spin of bolt, bolt, fire was classified Small with multiplier 2
C15_BonusPairWithDoubleIsSmall ==
    /\ SpinDrawn(ev)
    /\ ev.emitted.symbols = <<"bolt", "bolt", "fire">>
    /\ ev.emitted.winType = "small" /\ ev.emitted.multiplier2 = 4

\* C20: a scheduled draw whose symbols are all different and without the
\* bonus pair creates no reward, leaves the gate and the ledger as they
\* were, and emits one outcome, with a null winner and prize 0
C20_NoWinDrawPromisesNothing ==
    [][(SpinDrawn(ev') /\ AllDifferent(ev'.emitted.symbols)
            /\ ~HasBonusPair(ev'.emitted.symbols)) =>
          /\ UNCHANGED <<pendingRewards, canStartNewRound, payouts, winners>>
          /\ ev'.emitted.name = "slot-result"
          /\ ev'.emitted.winner = null
          /\ ev'.emitted.prize = 0]_vars

\* the timer's draw of apple, orange, grape: an outcome without winner, an
\* empty ledger, the gate open
C20_NoWinOutcomeEmitted ==
    /\ ev.op = "slotTick" /\ ev.ret = "drawn"
    /\ ev.emitted.symbols = NoWin3
    /\ ev.emitted.name = "slot-result" /\ ev.emitted.winner = null
    /\ pendingRewards = <<>> /\ canStartNewRound

\* a spin that found a winning triple
SpinWon(e) == SpinDrawn(e) /\ e.emitted.winType # "none"

\* the tier multipliers of the winning outcomes
TierMultipliers(winType) ==
    CASE winType = "jackpot" -> {50}
      [] winType = "large" -> {10}
      [] winType = "medium" -> {5, 8}
      [] winType = "small" -> {2}
      [] OTHER -> {0}

\* C16: the prize of a winning scheduled draw is min(pool * 0.1, 1) times
\* the tier multiplier (Jackpot 50, Large 10, Medium 5 or 8, Small 2) times
\* the weather multiplier, and nothing else (20 * prize against
\* min(pool, 10) * tier * twice the weather multiplier)
C16_PrizeIsBaseTierWeather ==
    [][SpinWon(ev') =>
          \E m \in TierMultipliers(ev'.emitted.winType) :
              /\ ev'.emitted.multiplier2 = m * currentWeather.multiplier2
              /\ 20 * ev'.emitted.prize
                     = Min(prizePool, 10 * SOL) * m * currentWeather.multiplier2]_vars

\* a Small win on a pool of 1 SOL in sunny weather that promised 0.1 SOL,
\* half of base 0.1 * tier 2 * weather 1
C16_SmallWinHalved ==
    /\ SpinWon(ev)
    /\ ev.emitted.symbols = Small3
    /\ ev.emitted.multiplier2 = 2 * 2
    /\ ev.emitted.prize = SOL \div 10
    /\ Len(pendingRewards) = 1 /\ pendingRewards[1].amount = SOL \div 10

\* C17: the prize of a winning scheduled draw under Storm is exactly 3
\* times the prize calculatePrize gives the same pool and outcome under
\* Sunny
C17_StormIsThreeTimesSunny ==
    [][(SpinWon(ev') /\ currentWeather.type = "storm") =>
          ev'.emitted.prize
              = 3 * calculatePrize(prizePool, ev'.emitted.winType,
                                   evaluateSlotResult(ev'.emitted.symbols).multiplier,
                                   weatherConfig("sunny").multiplier2)]_vars

\* a Medium win on a pool of 1 SOL under Storm that promised 1.5 SOL, three
\* times the 0.5 SOL of base 0.1 * tier 5 under Sunny
C17_StormMediumWin ==
    /\ SpinWon(ev)
    /\ currentWeather.type = "storm"
    /\ ev.emitted.symbols = Medium3
    /\ ev.emitted.prize = 3 * (SOL \div 2)
    /\ Len(pendingRewards) = 1 /\ pendingRewards[1].amount = 3 * (SOL \div 2)

\* C18: the reward of a lightning win is min(pool * 0.05, 0.5) times the
\* weather multiplier (40 * amount against min(pool, 10) * twice the
\* weather multiplier)
C18_LightningScaledByWeather ==
    [][(ev'.op = "lightning" /\ ev'.ret = "drawn") =>
          /\ Len(pendingRewards') = Len(pendingRewards) + 1
          /\ pendingRewards'[Len(pendingRewards')].amount = ev'.emitted.prize
          /\ 40 * ev'.emitted.prize
                 = Min(prizePool, 10 * SOL) * currentWeather.multiplier2]_vars

\* a lightning win on a pool of 1 SOL under Storm that promised 0.05 SOL
C18_LightningUnscaledInStorm ==
    /\ ev.op = "lightning" /\ ev.ret = "drawn"
    /\ currentWeather.type = "storm"
    /\ ev.emitted.prize = SOL \div 20
    /\ Len(pendingRewards) = 1 /\ pendingRewards[1].amount = SOL \div 20
    /\ pendingRewards[1].winType = "lightning"

\* C19: a lightning strike on a pool whose 5% is below 0.01 SOL creates no
\* reward and leaves the pool, the fresh-fees flag and the gate unchanged
C19_LightningBelowMinimumPaysNothing ==
    [][(ev'.op = "lightning" /\ 5 * prizePool < SOL) =>
          /\ ev'.ret # "drawn"
          /\ UNCHANGED <<pendingRewards, payouts, winners, prizePool,
                         actualClaimedAmount, hasNewCreatorFees,
                         canStartNewRound>>]_vars

\* a strike on a fresh pool of 0.1 SOL returned at the minimum test: the
\* pool still there and fresh, the gate open, no reward
C19_StrikeBelowMinimum ==
    /\ ev.op = "lightning" /\ ev.ret = "below-minimum"
    /\ prizePool = SOL \div 10 /\ hasNewCreatorFees /\ canStartNewRound
    /\ pendingRewards = <<>>

\* C21: a scheduled draw that ends without a prize leaves the fresh-fees
\* flag and the pool exactly as they were before the draw (the fee batch is
\* spent only by a draw that computed a prize > 0)
C21_NoWinKeepsBatch ==
    [][(SpinDrawn(ev') /\ ev'.emitted.prize = 0) =>
          UNCHANGED <<hasNewCreatorFees, prizePool>>]_vars

\* a draw of apple, orange, grape by forceDraw on the claimed batch: no
\* reward, and the batch is spent, the pool 0
C21_NoWinSpentBatch ==
    /\ ev.op = "forceDraw" /\ ev.ret = "drawn"
    /\ ev.emitted.symbols = NoWin3 /\ ev.emitted.prize = 0
    /\ pendingRewards = <<>>
    /\ ~hasNewCreatorFees /\ prizePool = 0 /\ actualClaimedAmount = 0

\* the timers of the lottery, and those of the service
LotteryTimers == {"slotInterval", "weatherInterval", "lightningInterval"}
ServiceTimers == {"fetchInterval", "feeCheckInterval"}

\* a step in which a start() reached its end: only there is a fetchInterval
\* armed
StartEnded == timers'["fetchInterval"].armed > timers["fetchInterval"].armed

C23_NoTimerAfterStop ==
    [][ev'.op = "stop" => \A k \in TimerFields : timers'[k].armed = 0]_vars

\* stop has returned and a holder-refresh timer and a fee-check timer are
\* still armed, their handles no longer held
C23_TimersSurviveStop ==
    /\ ev.op = "stop" /\ ~isRunning
    /\ \A k \in ServiceTimers : timers[k].armed = 1 /\ ~timers[k].live
    /\ \A k \in LotteryTimers : timers[k].armed = 0

\* the steps that are timer callbacks
CallbackOps == {"slotTick", "lightning", "changeWeather", "fetchTick", "feeCheckTick"}

\* C24: no timer callback (slot draw, lightning, weather change, holder
\* refresh, fee check) runs while a holder fetch, a fee check or a payout
\* is suspended on its external call
C24_CallbacksRunToCompletion ==
    [][ev'.op \in CallbackOps =>
          InFlightFetches = 0 /\ feeChecks = {} /\ payouts = {}]_vars

\* the slot timer drew, and created a reward, while the holder refresh of
\* the fetch timer was awaiting its response
C24_DrawDuringFetch ==
    /\ ev.op = "slotTick" /\ ev.ret = "drawn"
    /\ fetches["timer"] = 1
    /\ Len(pendingRewards) = 1

\* C25: when the claim of a periodic fee check fails, the pool and the
\* fresh-fees flag keep the values they had
C25_FailedFeeCheckKeepsPool ==
    [][(ev'.op = "claimReturns" /\ ev'.ret = "failed") =>
          UNCHANGED <<prizePool, hasNewCreatorFees, actualClaimedAmount>>]_vars

\* a claim failed on a private key that does not decode, with no draw made
\* and after a claimed amount had been set: the pool is 0 and not fresh
C25_FailedClaimEmptiedPool ==
    /\ ev.op = "claimReturns" /\ ev.ret = "failed"
    /\ creds = "malformed"
    /\ prizePool = 0 /\ ~hasNewCreatorFees /\ actualClaimedAmount = 0
    /\ pendingRewards = <<>> /\ isRunning

\* C26: a holder fetch that fails leaves the lottery's holders and their
\* tickets as they were, and the ledger; the failed fetch of the refresh
\* timer leaves the pool and the gate too (after the failed fetch of
\* start(), start goes on to its fee check in the same step)
C26_FailedFetchKeepsHolders ==
    [][(ev'.op = "fetchReturns" /\ ev'.ret = "error") =>
          /\ holders' = holders
          /\ UNCHANGED <<pendingRewards, payouts, winners>>
          /\ fetches'["timer"] < fetches["timer"] =>
                 UNCHANGED <<prizePool, actualClaimedAmount, hasNewCreatorFees,
                             canStartNewRound>>]_vars

\* a refresh failed on a running service: the holders of the first fetch
\* with their tickets, the claimed pool and the pending reward still there
C26_HoldersSurviveFailedFetch ==
    /\ ev.op = "fetchReturns" /\ ev.ret = "error"
    /\ isRunning
    /\ holders = updateHolders(lotteryHolders(HoldersA))
    /\ prizePool = SOL /\ hasNewCreatorFees
    /\ Len(pendingRewards) = 1 /\ ~canStartNewRound

\* C27: setActualClaimedAmount(a) sets the pool to exactly a, whatever the
\* pool was before, and sets the fresh-fees flag
C27_ClaimSetsPoolAbsolutely ==
    [][ev'.op = "setActualClaimedAmount" =>
          /\ ev'.emitted.name = "actual-amount-set"
          /\ prizePool' = ev'.emitted.amount
          /\ hasNewCreatorFees']_vars

\* 0.1 SOL was set while a reward of an earlier, larger batch is pending:
\* the pool is 0.1 SOL and fresh
C27_SmallerAmountSet ==
    /\ ev.op = "setActualClaimedAmount" /\ ev.emitted.amount = SOL \div 10
    /\ prizePool = SOL \div 10 /\ hasNewCreatorFees
    /\ Len(pendingRewards) = 1 /\ pendingRewards[1].amount > SOL

\* C28: every holder's tickets are floor(sqrt(balance / 1000)): the t with
\* t * t <= balance / 1000 < (t + 1) * (t + 1)
C28_TicketsAreSquareRoot ==
    \A i \in 1..Len(holders) :
        /\ holders[i].tickets * holders[i].tickets * 1000 <= holders[i].balance
        /\ holders[i].balance
               < (holders[i].tickets + 1) * (holders[i].tickets + 1) * 1000

\* updateHolders stored a holder of 2500 tokens with 2 tickets, whose
\* square is above 2.5, and a holder of no tokens with 1 ticket
C28_LinearTicketsStored ==
    /\ ev.op = "updateHolders"
    /\ \E i, j \in 1..Len(holders) :
          /\ holders[i].balance = 2500 /\ holders[i].tickets = 2
          /\ holders[i].tickets * holders[i].tickets * 1000 > holders[i].balance
          /\ holders[j].balance = 0 /\ holders[j].tickets = 1

\* a draw that computed a prize > 0 for a winner
PayingDraw(e) == e.op \in DrawOps /\ e.ret = "drawn" /\ e.emitted.prize > 0

\* the draw added one reward to the ledger, with the winner and the prize
\* of the outcome and the kind of the draw
OneRewardAdded ==
    /\ Len(pendingRewards') = Len(pendingRewards) + 1
    /\ SubSeq(pendingRewards', 1, Len(pendingRewards)) = pendingRewards
    /\ pendingRewards'[Len(pendingRewards')].winner = ev'.emitted.winner
    /\ pendingRewards'[Len(pendingRewards')].amount = ev'.emitted.prize
    /\ pendingRewards'[Len(pendingRewards')].winType
           = (IF ev'.op = "lightning" THEN "lightning" ELSE "slot")

Submitted == payouts' \ payouts

\* C30: a payout is submitted only by the draw step that created its
\* reward, once, and never by retryFailedReward; so no two submissions in
\* flight at the same time carry the same reward id
C30_OneSubmissionPerRewardId ==
    /\ [][Submitted # {} =>
             /\ PayingDraw(ev')
             /\ Len(pendingRewards') = Len(pendingRewards) + 1
             /\ Submitted = {Len(pendingRewards')}]_vars
    /\ [][ev'.op = "retryFailedReward" => Submitted = {}]_vars
    /\ [](\A i, j \in payouts :
             i # j => rewardId(pendingRewards[i]) # rewardId(pendingRewards[j]))

\* forceDraw opened a second reward for the winner of the first in the same
\* millisecond, the first confirmed by hand with its payout still in
\* flight: two payouts in flight, one reward id
C30_TwoSubmissionsOneId ==
    /\ ev.op = "forceDraw" /\ ev.ret = "drawn"
    /\ payouts = {1, 2}
    /\ rewardId(pendingRewards[1]) = rewardId(pendingRewards[2])
    /\ pendingRewards[1].status = "confirmed" /\ pendingRewards[2].status = "pending"

\* ------------------------------------------------------------------------
\* Payouts that return
\* ------------------------------------------------------------------------

\* the payout of reward i returns or throws
PayoutEnds(i) == (PayoutSucceeds \/ PayoutThrows) /\ i \in payouts /\ i \notin payouts'

\* the draw and reward cycle, where every call distributeReward awaits
\* (getLatestBlockhash, sendAndConfirmTransaction) resolves or rejects
SpecPayoutsReturn ==
    SpecCore /\ \A i \in 1..MaxRewards : WF_vars(PayoutEnds(i))

\* reward i has left Pending
Settled(i) ==
    /\ Len(pendingRewards) >= i
    /\ pendingRewards[i].status \in {"confirmed", "failed"}

\* C31: every reward a draw creates is eventually Confirmed or
\* Failed, given that the payout call returns or throws; and whenever a
\* payout succeeds the gate is open afterwards
C31_RewardSettlesAndGateReopens ==
    /\ \A i \in 1..MaxRewards :
           (PayingDraw(ev) /\ Len(pendingRewards) = i) ~> Settled(i)
    /\ [][ev'.op = "payout" /\ ev'.ret = "sent" => canStartNewRound']_vars

\* the payout of a reward succeeded after failRewardTransaction had been
\* called for it: the reward stays Failed and the gate blocked
C31_PaidRewardStaysFailed ==
    /\ ev.op = "payout" /\ ev.ret = "sent"
    /\ ~canStartNewRound
    /\ \E i \in DOMAIN pendingRewards :
          /\ rewardId(pendingRewards[i]) = ev.id
          /\ pendingRewards[i].status = "failed"
          /\ i \notin payouts

\* C32: whenever the fresh-fees flag is set, the pool a draw would read is
\* the amount of the latest setActualClaimedAmount (which the lottery keeps
\* in actualClaimedAmount while the flag is set), also when the amount was
\* set during the payout of an earlier reward that is confirmed afterwards
C32_FreshPoolIsLastClaim ==
    hasNewCreatorFees => prizePool = actualClaimedAmount

\* an amount was set while a payout was in flight, and the payout then
\* succeeded: the flag is set and the pool is the amount less the reward
C32_PayoutDeductedFromNewClaim ==
    /\ ev.op = "payout" /\ ev.ret = "sent"
    /\ hasNewCreatorFees
    /\ actualClaimedAmount \in scope.claims
    /\ \E i \in DOMAIN pendingRewards :
          /\ rewardId(pendingRewards[i]) = ev.id
          /\ pendingRewards[i].status = "confirmed"
          /\ prizePool = actualClaimedAmount - pendingRewards[i].amount

\* C33: when executeTripleDistribution has returned after a claim of amount
\* A that no draw has spent yet (the lottery keeps A in actualClaimedAmount
\* while the fresh-fees flag is set), the pool is the lottery's share,
\* 33 hundredths of A
C33_PoolIsLotteryShare ==
    [][ev'.op = "distributionReturns" /\ ev'.ret = "ok" /\ hasNewCreatorFees' =>
          100 * prizePool' = 33 * actualClaimedAmount']_vars

\* the dev transfer and the buy-and-burn are done and the pool is still the
\* whole claimed amount
C33_PoolIsWholeClaim ==
    /\ ev.op = "distributionReturns" /\ ev.ret = "ok"
    /\ hasNewCreatorFees
    /\ actualClaimedAmount \in scope.claims
    /\ prizePool = actualClaimedAmount
    /\ lastCreatorFeesCheck > 0

\* ------------------------------------------------------------------------
\* The two triggers of a service that is stopped and started again
\* ------------------------------------------------------------------------

\* the inputs of the triggers
TriggerScope ==
    [rewards |-> MaxRewards,
     symbols |-> {Jackpot3, NoWin3},
     claims |-> {SOL},
     fetched |-> {HoldersA},
     weather |-> {"sunny"},
     txs |-> {"sigA"},
     armed |-> MaxArmed]

InitTriggers ==
    /\ Started(HoldersA)
    /\ creds \in {"ok", "missing"}
    /\ scope = TriggerScope

NextTriggers ==
    \/ ScheduledTick
    \/ LightningFires
    \/ SetActualClaimedAmount
    \/ PayoutSucceeds
    \/ PayoutThrows
    \/ Stop
    \/ Start
    \/ FetchReturns
    \/ ClaimReturns
    \/ DistributionReturns

\* an armed setInterval / setTimeout fires: the callbacks of slotInterval
\* and of lightningInterval are run whenever they are due
SpecTriggers ==
    /\ InitTriggers /\ [][NextTriggers]_vars
    /\ WF_vars(ScheduledTick) /\ WF_vars(LightningFires)

\* the service stays started and the ledger of the model has room
RunsOn == isRunning /\ Len(pendingRewards) < scope.rewards

\* C34: while the lottery is running both triggers are armed; every firing
\* of the lightning timeout while running arms the next one, whatever the
\* strike did (paid, skipped for want of funds, blocked by the gate); and
\* if the service is never stopped again, lightning strikes and scheduled
\* ticks both occur again and again
C34_TriggersRearm ==
    /\ [](isRunning => /\ timers["lightningInterval"].live
                       /\ timers["slotInterval"].live)
    /\ [][ev'.op = "lightning" /\ isRunning' =>
             /\ timers'["lightningInterval"].live
             /\ timers'["lightningInterval"].armed = timers["lightningInterval"].armed
             /\ timers'["slotInterval"] = timers["slotInterval"]]_vars
    /\ (<>[]RunsOn => ([]<>(ev.op = "lightning") /\ []<>(ev.op = "slotTick")))

\* a strike found the gate blocked by an unresolved reward, and the next
\* timeout is armed
C34_RearmedAfterBlockedStrike ==
    /\ ev.op = "lightning" /\ ev.ret = "blocked"
    /\ isRunning
    /\ ~canStartNewRound
    /\ timers["lightningInterval"] = [armed |-> 1, live |-> TRUE]
    /\ timers["slotInterval"].live

\* C35: the lottery holds one weather state; its kind is sunny, rainy or
\* storm and its multiplier the one of the table for that kind (1, 1.5, 3;
\* doubled here: 2, 3, 6), so at least 1; it starts as sunny with
\* multiplier 1, and only changeWeather changes it, replacing kind,
\* multiplier and duration together by those of the new kind
C35_OneWeatherFromTable ==
    /\ [](/\ currentWeather.type \in {"sunny", "rainy", "storm"}
          /\ currentWeather.multiplier2
                 = (CASE currentWeather.type = "sunny" -> 2
                      [] currentWeather.type = "rainy" -> 3
                      [] currentWeather.type = "storm" -> 6)
          /\ currentWeather.multiplier2 >= 2
          /\ (ev.op = "init" =>
                  currentWeather.type = "sunny" /\ currentWeather.multiplier2 = 2))
    /\ [][currentWeather' # currentWeather =>
             /\ ev'.op = "changeWeather"
             /\ currentWeather'.duration
                    = (CASE currentWeather'.type = "sunny" -> 600000
                         [] currentWeather'.type = "rainy" -> 480000
                         [] currentWeather'.type = "storm" -> 180000)]_vars

\* the weather changed to storm: multiplier 3 and three minutes
C35_ChangedToStorm ==
    /\ ev.op = "changeWeather"
    /\ currentWeather = [type |-> "storm", multiplier2 |-> 6, duration |-> 180000]

\* C36: the ledger only grows, by appending; no step changes the winner,
\* the amount, the kind or the creation time of a reward; a reward becomes
\* Confirmed only by a confirmation, which stores the transaction hash it
\* was given; and a Confirmed reward is never changed again
C36_AppendOnlyConfirmedTerminal ==
    /\ [][/\ Len(pendingRewards') >= Len(pendingRewards)
          /\ \A i \in DOMAIN pendingRewards :
                /\ pendingRewards'[i].winner = pendingRewards[i].winner
                /\ pendingRewards'[i].amount = pendingRewards[i].amount
                /\ pendingRewards'[i].winType = pendingRewards[i].winType
                /\ pendingRewards'[i].timestamp = pendingRewards[i].timestamp
                /\ (pendingRewards[i].status = "confirmed" =>
                        pendingRewards'[i] = pendingRewards[i])
                /\ (pendingRewards[i].status # "confirmed"
                        /\ pendingRewards'[i].status = "confirmed" =>
                            /\ ev'.op \in {"confirmRewardTransaction", "payout"}
                            /\ rewardId(pendingRewards[i]) = ev'.id
                            /\ pendingRewards'[i].txHash \in scope.txs)]_vars
    /\ [](\A i \in DOMAIN pendingRewards :
             pendingRewards[i].status = "confirmed" <=> pendingRewards[i].txHash # "none")

\* retryFailedReward was called with the id of the first reward, Confirmed
\* with its transaction hash, after a second reward was appended: nothing
\* was found to retry and the reward is as it was
C36_ConfirmedNotReopened ==
    /\ ev.op = "retryFailedReward" /\ ev.ret = "false"
    /\ Len(pendingRewards) = 2
    /\ ev.id = rewardId(pendingRewards[1])
    /\ pendingRewards[1].status = "confirmed"
    /\ pendingRewards[1].txHash \in scope.txs
    /\ rewardId(pendingRewards[2]) # ev.id

\* C37: no two rewards of the ledger have the same id (creation timestamp
\* and first eight characters of the winner), so an id names one reward
C37_RewardIdsDiffer ==
    \A i, j \in DOMAIN pendingRewards :
        i # j => rewardId(pendingRewards[i]) # rewardId(pendingRewards[j])

\* two rewards share one id; the payout of the first, already confirmed by
\* hand, threw, and failing it by id failed the second, whose own payout is
\* still in flight
C37_FailureHitOtherReward ==
    /\ ev.op = "payout" /\ ev.ret = "threw"
    /\ Len(pendingRewards) = 2
    /\ rewardId(pendingRewards[1]) = ev.id
    /\ rewardId(pendingRewards[2]) = ev.id
    /\ pendingRewards[1].status = "confirmed"
    /\ pendingRewards[2].status = "failed"
    /\ payouts = {2}

\* C38: after updateHolders the lottery holds exactly the wallets of the
\* list it was given, each once, and none of the wallets it held before
\* that the list does not name; the holders change in no other step, so a
\* draw, which selects among the holders held when it runs, selects among
\* the wallets of one list, never among those of two
C38_HoldersReplacedWholesale ==
    /\ [][ev'.op = "updateHolders" =>
             /\ Wallets(holders') = ev'.given
             /\ Len(holders') = Cardinality(ev'.given)
             /\ (Wallets(holders) \ ev'.given) \cap Wallets(holders') = {}]_vars
    /\ [][holders' # holders => ev'.op = "updateHolders"]_vars
    /\ [][ev'.op \in DrawOps =>
             /\ holders' = holders
             /\ ev'.emitted.winner # null => ev'.emitted.winner \in Wallets(holders)]_vars

\* a list naming one wallet replaced the holders of the first fetch, of
\* which it names none
C38_OldHoldersGone ==
    /\ ev.op = "updateHolders"
    /\ ev.given = {W2}
    /\ Len(holders) = 1 /\ holders[1].wallet = W2
    /\ Wallets(updateHolders(lotteryHolders(HoldersA))) \cap Wallets(holders) = {}

\* a step in which checkCreatorFees, with credentials, finds nothing to add
\* to the pool: the claim returned no success or no amount, the
\* distribution of a claim threw, or the last claim is less than five
\* minutes old (from the timer or from start)
NothingClaimable ==
    \/ ev'.op = "claimReturns" /\ ev'.ret \in {"nothing", "failed"}
    \/ ev'.op = "distributionReturns" /\ ev'.ret = "threw"
    \/ /\ \/ ev'.op = "feeCheckTick"
          \/ ev'.op = "fetchReturns" /\ fetches'["start"] < fetches["start"]
       /\ creds # "missing"
       /\ now - lastCreatorFeesCheck <= ThrottleMs

\* a step that records a claimed amount
ClaimRecorded ==
    \/ ev'.op = "setActualClaimedAmount"
    \/ ev'.op = "claimReturns" /\ ev'.ret = "claimed"

\* C39: a fee check that finds nothing claimable leaves the pool 0 and the
\* fresh-fees flag false; the flag is raised only when a claimed amount is
\* recorded; and a draw creates a reward only with the flag raised and the
\* pool above 0: so none does between such a check and the next recorded
\* claim
C39_UnfundedCheckEmptiesPool ==
    /\ [][NothingClaimable =>
             prizePool' = 0 /\ actualClaimedAmount' = 0 /\ ~hasNewCreatorFees']_vars
    /\ [][hasNewCreatorFees' /\ ~hasNewCreatorFees => ClaimRecorded]_vars
    /\ [][Len(pendingRewards') > Len(pendingRewards) =>
             hasNewCreatorFees /\ prizePool > 0 /\ ev'.op \in DrawOps]_vars

\* a later claim, after one that funded the pool, returned nothing: the
\* pool is empty, the flag false, and no reward was created
C39_NothingClaimedPoolEmpty ==
    /\ ev.op = "claimReturns" /\ ev.ret = "nothing"
    /\ lastCreatorFeesCheck > 0
    /\ prizePool = 0 /\ actualClaimedAmount = 0 /\ ~hasNewCreatorFees
    /\ pendingRewards = <<>>
====
